---------------------------- MODULE Spec2Model ----------------------------
(***************************************************************************)
(* Process-memory supervisor calls of the kernel emulation layer           *)
(* (svc_process_memory.cpp): SetProcessMemoryPermission, MapProcessMemory, *)
(* UnmapProcessMemory, MapProcessCodeMemory, UnmapProcessCodeMemory.       *)
(*                                                                         *)
(* The five handlers are translated from the source.  The page table, the  *)
(* page group and the handle table they call are not part of the source    *)
(* slice; they are modelled after their contracts (sections 3 and 4 of the *)
(* specification) and marked as such in the model map.                     *)
(*                                                                         *)
(* u64 arithmetic is kept modular: the model's machine word has WordBits   *)
(* bits instead of 64, the page size is the program's 4096.                *)
(***************************************************************************)
EXTENDS Integers, Sequences, FiniteSets, TLC

VARIABLES pt,    \* pt[p][page]: region record of each page of process p
          ref,   \* ref[b]: reference count of physical block b
          th,    \* th[t]: the call servicing thread t is executing
          lk     \* lk[p]: the thread holding the lock of p's page table, or 0

vars == <<pt, ref, th, lk>>

---------------------------------------------------------------------------
(* Sizes.                                                                  *)

PageSize == 4096
WordBits == 16
Word == 2 ^ WordBits

\* Layout of every address space, in pages: page 0 is outside the address
\* space, then CodePages pages of code, one page of normal (heap) memory and
\* AslrPages pages of ASLR / alias-code region.
CodePages == 2
AslrPages == 2
MaxRef == 5

NormalPage == CodePages + 1
AddressSpaceStart == PageSize
AddressSpaceEnd == (CodePages + AslrPages + 2) * PageSize
AslrRegionStart == (CodePages + 2) * PageSize
AslrRegionEnd == AddressSpaceEnd
ASPages == (AddressSpaceStart \div PageSize) .. ((AddressSpaceEnd \div PageSize) - 1)
InitPages == 1 .. NormalPage

Procs == {1, 2}
Handles == {"Pseudo", "Peer", "Bad"}
Threads == {1, 2}
\* The process whose threads issue the calls; the other process is reached
\* through the handle.
Callers == {2}

BlockOf(p, page) == p * 10 + page
Blocks == {BlockOf(p, page) : p \in Procs, page \in InitPages}

FreePage == [state |-> "Free", perm |-> "None", attr |-> "None", blk |-> 0]

St == [pt |-> pt, ref |-> ref]

---------------------------------------------------------------------------
(* Helpers of the source file.                                             *)

\* Addition that does not wrap.
Add64NoWrap(a, b) == a + b

\* u64 addition
Add64(a, b) == (a + b) % Word

IsAligned(x, a) == x % a = 0

Is4KBAligned(x) == x % 4096 = 0

IsValidAddressRange(address, size) == Add64(address, size) > address

\* A permission switch that also lets Write through.
IsValidProcessMemoryPermissionWithWrite(perm) ==
    perm \in {"None", "Read", "Write", "ReadWrite", "ReadExecute"}

IsValidProcessMemoryPermission(perm) ==
    perm \in {"None", "Read", "ReadWrite", "ReadExecute"}

---------------------------------------------------------------------------
(* Handle table.                                                           *)

\* Every process holds one handle, to the other process.
HandleTableEntry(cur, h) ==
    IF h = "Peer" THEN CHOOSE p \in Procs : p # cur ELSE 0

GetObject(cur, h) ==
    IF h = "Pseudo" THEN cur ELSE HandleTableEntry(cur, h)

GetObjectWithoutPseudoHandle(cur, h) ==
    IF h = "Pseudo" THEN 0 ELSE HandleTableEntry(cur, h)

---------------------------------------------------------------------------
(* Page table (address space) and page group.                              *)

StateFlags(state) ==
    CASE state = "Code" -> {"CanMapProcess", "Code"}
      [] state = "Normal" -> {"CanCodeAlias"}
      [] OTHER -> {}

\* The pages of [addr, addr + size), in order; addr and size are page
\* aligned, size > 0 and the range does not wrap.
FirstPage(addr) == addr \div PageSize
NumPages(size) == size \div PageSize
RangePages(addr, size) == FirstPage(addr) .. (FirstPage(addr) + NumPages(size) - 1)

IsInsideAddressSpace(addr, size) ==
    AddressSpaceStart <= addr /\ addr + size - 1 <= AddressSpaceEnd - 1

IsInsideASLRRegion(addr, size) ==
    AslrRegionStart <= addr /\ addr + size - 1 <= AslrRegionEnd - 1

GetRegionAddress(state) ==
    IF state \in {"SharedCode", "AliasCode"} THEN AslrRegionStart ELSE AddressSpaceStart

GetRegionEnd(state) ==
    IF state \in {"SharedCode", "AliasCode"} THEN AslrRegionEnd ELSE AddressSpaceEnd

IsFree(s, p, addr, size) ==
    \A page \in RangePages(addr, size) : s.pt[p][page].state = "Free"

Contains(s, p, addr, size) ==
    /\ IsInsideAddressSpace(addr, size)
    /\ \A page \in RangePages(addr, size) : s.pt[p][page].state # "Free"

CanContain(s, p, addr, size, state) ==
    /\ GetRegionAddress(state) <= addr
    /\ addr + size - 1 <= GetRegionEnd(state) - 1
    /\ IsFree(s, p, addr, size)

\* The ordered sequence of physical blocks backing [addr, addr + size).
BlocksAt(s, p, addr, size) ==
    [i \in 1 .. NumPages(size) |-> s.pt[p][FirstPage(addr) + i - 1].blk]

Count(pg, b) == Cardinality({i \in DOMAIN pg : pg[i] = b})

Open(s, pg) == [s EXCEPT !.ref = [b \in Blocks |-> s.ref[b] + Count(pg, b)]]

Close(s, pg) == [s EXCEPT !.ref = [b \in Blocks |-> s.ref[b] - Count(pg, b)]]

PageTable_SetProcessMemoryPermission(s, p, addr, size, perm) ==
    IF /\ Contains(s, p, addr, size)
       /\ \A page \in RangePages(addr, size) :
             /\ "Code" \in StateFlags(s.pt[p][page].state)
             /\ s.pt[p][page].attr = "None"
    THEN [st |-> [s EXCEPT !.pt[p] = [page \in ASPages |->
                     IF page \in RangePages(addr, size)
                     THEN [s.pt[p][page] EXCEPT !.perm = perm]
                     ELSE s.pt[p][page]]],
          res |-> "Success"]
    ELSE [st |-> s, res |-> "InvalidCurrentMemory"]

MakeAndOpenPageGroup(s, p, addr, npages, stateFlag, attrExpected) ==
    LET size == npages * PageSize IN
    IF /\ Contains(s, p, addr, size)
       /\ \A page \in RangePages(addr, size) :
             /\ stateFlag \in StateFlags(s.pt[p][page].state)
             /\ s.pt[p][page].attr = attrExpected
    THEN LET pg == BlocksAt(s, p, addr, size) IN
         [st |-> Open(s, pg), res |-> "Success", pg |-> pg]
    ELSE [st |-> s, res |-> "InvalidCurrentMemory", pg |-> <<>>]

MapPageGroup(s, p, addr, pg, state, perm) ==
    LET size == Len(pg) * PageSize IN
    IF CanContain(s, p, addr, size, state)
    THEN [st |-> Open([s EXCEPT !.pt[p] = [page \in ASPages |->
                     IF page \in RangePages(addr, size)
                     THEN [state |-> state, perm |-> perm, attr |-> "None",
                           blk |-> pg[page - FirstPage(addr) + 1]]
                     ELSE s.pt[p][page]]], pg),
          res |-> "Success"]
    ELSE [st |-> s, res |-> "InvalidCurrentMemory"]

PageTable_UnmapProcessMemory(s, p, dst, size, srcp, src) ==
    IF /\ IsInsideAddressSpace(dst, size)
       /\ \A page \in RangePages(dst, size) : s.pt[p][page].state = "SharedCode"
       /\ Contains(s, srcp, src, size)
       /\ BlocksAt(s, p, dst, size) = BlocksAt(s, srcp, src, size)
    THEN [st |-> Close([s EXCEPT !.pt[p] = [page \in ASPages |->
                     IF page \in RangePages(dst, size) THEN FreePage
                     ELSE s.pt[p][page]]], BlocksAt(s, p, dst, size)),
          res |-> "Success"]
    ELSE [st |-> s, res |-> "InvalidCurrentMemory"]

MapCodeMemory(s, p, dst, src, size) ==
    IF /\ Contains(s, p, src, size)
       /\ \A page \in RangePages(src, size) :
             /\ "CanCodeAlias" \in StateFlags(s.pt[p][page].state)
             /\ s.pt[p][page].attr = "None"
       /\ IsInsideASLRRegion(dst, size)
       /\ IsFree(s, p, dst, size)
    THEN LET pg == BlocksAt(s, p, src, size) IN
         [st |-> Open([s EXCEPT !.pt[p] = [page \in ASPages |->
                     IF page \in RangePages(dst, size)
                     THEN [state |-> "AliasCode", perm |-> "ReadExecute", attr |-> "None",
                           blk |-> pg[page - FirstPage(dst) + 1]]
                     ELSE IF page \in RangePages(src, size)
                     THEN [s.pt[p][page] EXCEPT !.attr = "Locked"]
                     ELSE s.pt[p][page]]], pg),
          res |-> "Success"]
    ELSE [st |-> s, res |-> "InvalidCurrentMemory"]

UnmapCodeMemory(s, p, dst, src, size) ==
    IF /\ Contains(s, p, src, size)
       /\ \A page \in RangePages(src, size) : s.pt[p][page].attr = "Locked"
       /\ IsInsideASLRRegion(dst, size)
       /\ \A page \in RangePages(dst, size) :
             /\ s.pt[p][page].state = "AliasCode"
             /\ s.pt[p][page].attr = "None"
       /\ BlocksAt(s, p, dst, size) = BlocksAt(s, p, src, size)
    THEN [st |-> Close([s EXCEPT !.pt[p] = [page \in ASPages |->
                     IF page \in RangePages(dst, size) THEN FreePage
                     ELSE IF page \in RangePages(src, size)
                     THEN [s.pt[p][page] EXCEPT !.attr = "None"]
                     ELSE s.pt[p][page]]], BlocksAt(s, p, dst, size)),
          res |-> "Success"]
    ELSE [st |-> s, res |-> "InvalidCurrentMemory"]

---------------------------------------------------------------------------
(* The context of one call: its arguments, its position and what it did.   *)
(* dst holds the single address of SetProcessMemoryPermission.             *)

NewCall(op, cur, h, dst, src, size, perm) ==
    [op |-> op, cur |-> cur, h |-> h, dst |-> dst, src |-> src, size |-> size,
     perm |-> perm, pc |-> "start", proc |-> 0, pg |-> <<>>, res |-> "Pending",
     looked |-> FALSE,   \* the handle table was consulted
     touched |-> FALSE,  \* a page table was queried or changed
     opens |-> 0,        \* successful MakeAndOpenPageGroup calls
     closes |-> 0,       \* Close calls on the call's page group
     changed |-> FALSE]  \* the call installed or removed a mapping or permission

Idle == [NewCall("None", 0, "Bad", 0, 0, 0, "None") EXCEPT !.pc = "idle"]

Return(c, res) == [c EXCEPT !.pc = "done", !.res = res]

Goto(c, pc) == [c EXCEPT !.pc = pc]

---------------------------------------------------------------------------
(* Argument validation of the five handlers.                               *)

\* Validation that looks at the permission before the range.
SetProcessMemoryPermissionValidatePermFirst(address, size, perm) ==
    IF ~IsValidProcessMemoryPermission(perm) THEN "InvalidNewMemoryPermission"
    ELSE IF ~IsAligned(address, PageSize) THEN "InvalidAddress"
    ELSE IF ~IsAligned(size, PageSize) THEN "InvalidSize"
    ELSE IF ~(size > 0) THEN "InvalidSize"
    ELSE IF ~(address < Add64(address, size)) THEN "InvalidCurrentMemory"
    ELSE "Success"

SetProcessMemoryPermissionValidate(address, size, perm) ==
    IF ~IsAligned(address, PageSize) THEN "InvalidAddress"
    ELSE IF ~IsAligned(size, PageSize) THEN "InvalidSize"
    ELSE IF ~(size > 0) THEN "InvalidSize"
    ELSE IF ~(address < Add64(address, size)) THEN "InvalidCurrentMemory"
    ELSE IF ~(address = address % Word) THEN "InvalidCurrentMemory"
    ELSE IF ~(size = size % Word) THEN "InvalidCurrentMemory"
    ELSE IF ~IsValidProcessMemoryPermission(perm) THEN "InvalidNewMemoryPermission"
    ELSE "Success"

\* Validation that looks at the size before the addresses.
MapProcessMemoryValidateSizeFirst(dst_address, src_address, size) ==
    IF ~IsAligned(size, PageSize) THEN "InvalidSize"
    ELSE IF ~(size > 0) THEN "InvalidSize"
    ELSE IF ~IsAligned(dst_address, PageSize) THEN "InvalidAddress"
    ELSE IF ~IsAligned(src_address, PageSize) THEN "InvalidAddress"
    ELSE IF ~(dst_address < Add64(dst_address, size)) THEN "InvalidCurrentMemory"
    ELSE IF ~(src_address < Add64(src_address, size)) THEN "InvalidCurrentMemory"
    ELSE "Success"

MapProcessMemoryValidate(dst_address, src_address, size) ==
    IF ~IsAligned(dst_address, PageSize) THEN "InvalidAddress"
    ELSE IF ~IsAligned(src_address, PageSize) THEN "InvalidAddress"
    ELSE IF ~IsAligned(size, PageSize) THEN "InvalidSize"
    ELSE IF ~(size > 0) THEN "InvalidSize"
    ELSE IF ~(dst_address < Add64(dst_address, size)) THEN "InvalidCurrentMemory"
    ELSE IF ~(src_address < Add64(src_address, size)) THEN "InvalidCurrentMemory"
    ELSE "Success"

UnmapProcessMemoryValidate(dst_address, src_address, size) ==
    IF ~IsAligned(dst_address, PageSize) THEN "InvalidAddress"
    ELSE IF ~IsAligned(src_address, PageSize) THEN "InvalidAddress"
    ELSE IF ~IsAligned(size, PageSize) THEN "InvalidSize"
    ELSE IF ~(size > 0) THEN "InvalidSize"
    ELSE IF ~(dst_address < Add64(dst_address, size)) THEN "InvalidCurrentMemory"
    ELSE IF ~(src_address < Add64(src_address, size)) THEN "InvalidCurrentMemory"
    ELSE "Success"

MapProcessCodeMemoryValidate(dst_address, src_address, size) ==
    IF ~Is4KBAligned(src_address) THEN "InvalidAddress"
    ELSE IF ~Is4KBAligned(dst_address) THEN "InvalidAddress"
    ELSE IF size = 0 \/ ~Is4KBAligned(size) THEN "InvalidSize"
    ELSE IF ~IsValidAddressRange(dst_address, size) THEN "InvalidCurrentMemory"
    ELSE IF ~IsValidAddressRange(src_address, size) THEN "InvalidCurrentMemory"
    ELSE "Success"

UnmapProcessCodeMemoryValidate(dst_address, src_address, size) ==
    IF ~Is4KBAligned(dst_address) THEN "InvalidAddress"
    ELSE IF ~Is4KBAligned(src_address) THEN "InvalidAddress"
    ELSE IF size = 0 \/ ~Is4KBAligned(size) THEN "InvalidSize"
    ELSE IF ~IsValidAddressRange(dst_address, size) THEN "InvalidCurrentMemory"
    ELSE IF ~IsValidAddressRange(src_address, size) THEN "InvalidCurrentMemory"
    ELSE "Success"

---------------------------------------------------------------------------
(* Handle resolution of the handlers.                                      *)

\* The calling process taken instead of the named one.
SetProcessMemoryPermissionGetProcessCurrent(cur, h) == cur

SetProcessMemoryPermissionGetProcess(cur, h) == GetObject(cur, h)

\* A lookup that resolves the pseudo handle.
MapProcessMemoryGetProcessWithPseudo(cur, h) == GetObject(cur, h)

MapProcessMemoryGetProcess(cur, h) == GetObjectWithoutPseudoHandle(cur, h)

\* The lookup that accepts the pseudo handle.
UnmapProcessMemoryGetProcessWithPseudo(cur, h) == GetObject(cur, h)

UnmapProcessMemoryGetProcess(cur, h) == GetObjectWithoutPseudoHandle(cur, h)

MapProcessCodeMemoryGetProcess(cur, h) == GetObject(cur, h)

UnmapProcessCodeMemoryGetProcess(cur, h) == GetObject(cur, h)

\* Validation, then the handle lookup: the part of a handler that reads no
\* address space.  next is the position after a successful lookup.
Enter(c, v, p, next) ==
    IF v # "Success" THEN Return(c, v)
    ELSE IF p = 0 THEN Return([c EXCEPT !.looked = TRUE], "InvalidHandle")
    ELSE [c EXCEPT !.looked = TRUE, !.proc = p, !.pc = next]

---------------------------------------------------------------------------
(* The handlers, one atomic step per page-table call.  Each takes the      *)
(* shared state s and the call's context c and gives both after the step.  *)

\* The range checks of the code-memory handlers against the fixed bounds of
\* the target's address space.
MapProcessCodeMemoryCheckRegionNoAslr(dst_address, src_address, size) ==
    IF ~IsInsideAddressSpace(src_address, size) THEN "InvalidCurrentMemory"
    ELSE "Success"

MapProcessCodeMemoryCheckRegion(dst_address, src_address, size) ==
    IF ~IsInsideAddressSpace(src_address, size) THEN "InvalidCurrentMemory"
    ELSE IF ~IsInsideASLRRegion(dst_address, size) THEN "InvalidMemoryRegion"
    ELSE "Success"

\* The range checks with the two addresses taken for each other.
UnmapProcessCodeMemoryCheckRegionSwapped(dst_address, src_address, size) ==
    IF ~IsInsideAddressSpace(dst_address, size) THEN "InvalidCurrentMemory"
    ELSE IF ~IsInsideASLRRegion(src_address, size) THEN "InvalidMemoryRegion"
    ELSE "Success"

UnmapProcessCodeMemoryCheckRegion(dst_address, src_address, size) ==
    IF ~IsInsideAddressSpace(src_address, size) THEN "InvalidCurrentMemory"
    ELSE IF ~IsInsideASLRRegion(dst_address, size) THEN "InvalidMemoryRegion"
    ELSE "Success"

\* The mutating page-table calls of the shared-memory handlers.
MapProcessMemoryMapGroupIntoSource(s, c) ==
    MapPageGroup(s, c.proc, c.dst, c.pg, "SharedCode", "ReadWrite")

\* The result of MapPageGroup dropped.
MapProcessMemoryMapGroupUnchecked(s, c) ==
    [st |-> MapPageGroup(s, c.cur, c.dst, c.pg, "SharedCode", "ReadWrite").st,
     res |-> "Success"]

MapProcessMemoryMapGroup(s, c) ==
    MapPageGroup(s, c.cur, c.dst, c.pg, "SharedCode", "ReadWrite")

\* The result of MapCodeMemory dropped.
MapProcessCodeMemoryMapUnchecked(s, c) ==
    [st |-> MapCodeMemory(s, c.proc, c.dst, c.src, c.size).st, res |-> "Success"]

MapProcessCodeMemoryMap(s, c) ==
    MapCodeMemory(s, c.proc, c.dst, c.src, c.size)

UnmapProcessMemoryUnmapAgainstItself(s, c) ==
    PageTable_UnmapProcessMemory(s, c.cur, c.dst, c.size, c.cur, c.dst)

UnmapProcessMemoryUnmap(s, c) ==
    PageTable_UnmapProcessMemory(s, c.cur, c.dst, c.size, c.proc, c.src)

\* The first step of each handler: argument validation and handle lookup
\* and, in the code-memory handlers, the range checks.  It reads the call's
\* arguments and nothing of the page tables' contents.
SetProcessMemoryPermissionEnter(c) ==
    Enter(c, SetProcessMemoryPermissionValidate(c.dst, c.size, c.perm),
          SetProcessMemoryPermissionGetProcess(c.cur, c.h), "contains")

MapProcessMemoryEnter(c) ==
    Enter(c, MapProcessMemoryValidate(c.dst, c.src, c.size),
          MapProcessMemoryGetProcess(c.cur, c.h), "contains")

UnmapProcessMemoryEnter(c) ==
    Enter(c, UnmapProcessMemoryValidate(c.dst, c.src, c.size),
          UnmapProcessMemoryGetProcess(c.cur, c.h), "contains")

MapProcessCodeMemoryEnter(c) ==
    LET c1 == Enter(c, MapProcessCodeMemoryValidate(c.dst, c.src, c.size),
                    MapProcessCodeMemoryGetProcess(c.cur, c.h), "mutate")
        c2 == [c1 EXCEPT !.touched = TRUE]
        v == MapProcessCodeMemoryCheckRegion(c.dst, c.src, c.size) IN
    IF c1.pc = "done" THEN c1
    ELSE IF v # "Success" THEN Return(c2, v)
    ELSE c2

UnmapProcessCodeMemoryEnter(c) ==
    LET c1 == Enter(c, UnmapProcessCodeMemoryValidate(c.dst, c.src, c.size),
                    UnmapProcessCodeMemoryGetProcess(c.cur, c.h), "mutate")
        c2 == [c1 EXCEPT !.touched = TRUE]
        v == UnmapProcessCodeMemoryCheckRegion(c.dst, c.src, c.size) IN
    IF c1.pc = "done" THEN c1
    ELSE IF v # "Success" THEN Return(c2, v)
    ELSE c2

SetProcessMemoryPermission(s, c) ==
    CASE c.pc = "start" -> [st |-> s, c |-> SetProcessMemoryPermissionEnter(c)]
      [] c.pc = "contains" ->
           LET c1 == [c EXCEPT !.touched = TRUE] IN
           [st |-> s,
            c |-> IF ~Contains(s, c.proc, c.dst, c.size)
                  THEN Return(c1, "InvalidCurrentMemory")
                  ELSE Goto(c1, "mutate")]
      [] c.pc = "mutate" ->
           LET r == PageTable_SetProcessMemoryPermission(s, c.proc, c.dst, c.size, c.perm) IN
           [st |-> r.st,
            c |-> Return([c EXCEPT !.changed = (r.res = "Success")], r.res)]

MapProcessMemory(s, c) ==
    CASE c.pc = "start" -> [st |-> s, c |-> MapProcessMemoryEnter(c)]
      [] c.pc = "contains" ->
           LET c1 == [c EXCEPT !.touched = TRUE] IN
           [st |-> s,
            c |-> IF ~Contains(s, c.proc, c.src, c.size)
                  THEN Return(c1, "InvalidCurrentMemory")
                  ELSE Goto(c1, "cancontain")]
      [] c.pc = "cancontain" ->
           [st |-> s,
            c |-> IF ~CanContain(s, c.cur, c.dst, c.size, "SharedCode")
                  THEN Return(c, "InvalidMemoryRegion")
                  ELSE Goto(c, "makegroup")]
      [] c.pc = "makegroup" ->
           LET r == MakeAndOpenPageGroup(s, c.proc, c.src, c.size \div PageSize,
                                         "CanMapProcess", "None") IN
           [st |-> r.st,
            c |-> IF r.res # "Success" THEN Return(c, r.res)
                  ELSE [c EXCEPT !.pg = r.pg, !.opens = c.opens + 1, !.pc = "mutate"]]
      [] c.pc = "mutate" ->
           LET r == MapProcessMemoryMapGroup(s, c) IN
           [st |-> r.st,
            c |-> IF r.res # "Success" THEN Return(c, r.res)
                  ELSE Return([c EXCEPT !.changed = TRUE], "Success")]

UnmapProcessMemory(s, c) ==
    CASE c.pc = "start" -> [st |-> s, c |-> UnmapProcessMemoryEnter(c)]
      [] c.pc = "contains" ->
           LET c1 == [c EXCEPT !.touched = TRUE] IN
           [st |-> s,
            c |-> IF ~Contains(s, c.proc, c.src, c.size)
                  THEN Return(c1, "InvalidCurrentMemory")
                  ELSE Goto(c1, "cancontain")]
      [] c.pc = "cancontain" ->
           [st |-> s,
            c |-> IF ~CanContain(s, c.cur, c.dst, c.size, "SharedCode")
                  THEN Return(c, "InvalidMemoryRegion")
                  ELSE Goto(c, "mutate")]
      [] c.pc = "mutate" ->
           LET r == UnmapProcessMemoryUnmap(s, c) IN
           [st |-> r.st,
            c |-> Return([c EXCEPT !.changed = (r.res = "Success")], r.res)]

MapProcessCodeMemory(s, c) ==
    CASE c.pc = "start" -> [st |-> s, c |-> MapProcessCodeMemoryEnter(c)]
      [] c.pc = "mutate" ->
           LET r == MapProcessCodeMemoryMap(s, c) IN
           [st |-> r.st,
            c |-> Return([c EXCEPT !.changed = (r.res = "Success")], r.res)]

UnmapProcessCodeMemory(s, c) ==
    CASE c.pc = "start" -> [st |-> s, c |-> UnmapProcessCodeMemoryEnter(c)]
      [] c.pc = "mutate" ->
           LET r == UnmapCodeMemory(s, c.proc, c.dst, c.src, c.size) IN
           [st |-> r.st,
            c |-> Return([c EXCEPT !.changed = (r.res = "Success")], r.res)]

Step(s, c) ==
    CASE c.op = "SetProcessMemoryPermission" -> SetProcessMemoryPermission(s, c)
      [] c.op = "MapProcessMemory" -> MapProcessMemory(s, c)
      [] c.op = "UnmapProcessMemory" -> UnmapProcessMemory(s, c)
      [] c.op = "MapProcessCodeMemory" -> MapProcessCodeMemory(s, c)
      [] c.op = "UnmapProcessCodeMemory" -> UnmapProcessCodeMemory(s, c)

\* A call run from its start to its return with no other call in between.
RECURSIVE Run(_, _)
Run(s, c) ==
    IF c.pc = "done" THEN [st |-> s, c |-> c]
    ELSE LET r == Step(s, c) IN Run(r.st, r.c)

---------------------------------------------------------------------------
(* Inputs.                                                                 *)

\* Page 0 (outside the address space), the first two code pages, the normal
\* page, the first two pages of the ASLR region, an unaligned address, and
\* the last page of the machine word (any size wraps there).
Addrs == {0, PageSize, 2 * PageSize, NormalPage * PageSize,
          AslrRegionStart, AslrRegionStart + PageSize,
          PageSize + 1, Word - PageSize}

Sizes == {0, PageSize, 2 * PageSize, PageSize + 1}

Perms == {"Read", "ReadExecute", "Write", "Execute", "DontCare"}

\* The calls of each handler over these inputs.
\* The addresses SetProcessMemoryPermission is called with: page 0, the
\* first code page (with the second, for two pages), the normal page, the
\* first page of the ASLR region, an unaligned address and the last page of
\* the machine word.
PermAddrs == {0, PageSize, NormalPage * PageSize, AslrRegionStart,
              PageSize + 1, Word - PageSize}

SetPermCalls ==
    {NewCall("SetProcessMemoryPermission", cur, h, address, 0, size, perm) :
        cur \in Callers, h \in Handles, address \in PermAddrs, size \in Sizes, perm \in Perms}

CallsOf(op) ==
    {NewCall(op, cur, h, dst, src, size, "None") :
        cur \in Callers, h \in Handles, dst \in Addrs, src \in Addrs, size \in Sizes}

MapCalls == CallsOf("MapProcessMemory")
UnmapCalls == CallsOf("UnmapProcessMemory")
MapCodeCalls == CallsOf("MapProcessCodeMemory")
UnmapCodeCalls == CallsOf("UnmapProcessCodeMemory")

Calls == SetPermCalls \cup MapCalls \cup UnmapCalls \cup MapCodeCalls \cup UnmapCodeCalls

\* The first step of the handler of call c.
Entry(c) ==
    CASE c.op = "SetProcessMemoryPermission" -> SetProcessMemoryPermissionEnter(c)
      [] c.op = "MapProcessMemory" -> MapProcessMemoryEnter(c)
      [] c.op = "UnmapProcessMemory" -> UnmapProcessMemoryEnter(c)
      [] c.op = "MapProcessCodeMemory" -> MapProcessCodeMemoryEnter(c)
      [] c.op = "UnmapProcessCodeMemory" -> UnmapProcessCodeMemoryEnter(c)

\* The calls that get past their handler's first step.  The others return
\* from it, whatever the state.
Admitted(calls) == {c \in calls : Entry(c).pc # "done"}

SetPermAdmitted == Admitted(SetPermCalls)
MapAdmitted == Admitted(MapCalls)
UnmapAdmitted == Admitted(UnmapCalls)
MapCodeAdmitted == Admitted(MapCodeCalls)
UnmapCodeAdmitted == Admitted(UnmapCodeCalls)

---------------------------------------------------------------------------
(* Initial state: every process has its code pages and one page of normal  *)
(* memory mapped, each on a block of its own; the ASLR region is free.     *)

InitPage(p, page) ==
    IF page <= CodePages
    THEN [state |-> "Code", perm |-> "ReadExecute", attr |-> "None", blk |-> BlockOf(p, page)]
    ELSE IF page = NormalPage
    THEN [state |-> "Normal", perm |-> "ReadWrite", attr |-> "None", blk |-> BlockOf(p, page)]
    ELSE FreePage

Init ==
    /\ pt = [p \in Procs |-> [page \in ASPages |-> InitPage(p, page)]]
    /\ ref = [b \in Blocks |-> 1]
    /\ th = [t \in Threads |-> Idle]
    /\ lk = [p \in Procs |-> 0]

RefOk(s) == \A b \in Blocks : s.ref[b] <= MaxRef

---------------------------------------------------------------------------
(* Calls served one at a time: a call runs to its return before the next   *)
(* is issued.  A call that returns from its handler's first step leaves    *)
(* every variable as it is: it is a stuttering step of the specification,  *)
(* and the steps of Next are the calls that get past it.                   *)

Issue(c) ==
    LET r == Run(St, c) IN
    /\ RefOk(r.st)
    /\ pt' = r.st.pt
    /\ ref' = r.st.ref

CallSetProcessMemoryPermission ==
    \E c \in SetPermAdmitted : Issue(c) /\ UNCHANGED <<th, lk>>

CallMapProcessMemory ==
    \E c \in MapAdmitted : Issue(c) /\ UNCHANGED <<th, lk>>

CallUnmapProcessMemory ==
    \E c \in UnmapAdmitted : Issue(c) /\ UNCHANGED <<th, lk>>

CallMapProcessCodeMemory ==
    \E c \in MapCodeAdmitted : Issue(c) /\ UNCHANGED <<th, lk>>

CallUnmapProcessCodeMemory ==
    \E c \in UnmapCodeAdmitted : Issue(c) /\ UNCHANGED <<th, lk>>

Next ==
    \/ CallSetProcessMemoryPermission
    \/ CallMapProcessMemory
    \/ CallUnmapProcessMemory
    \/ CallMapProcessCodeMemory
    \/ CallUnmapProcessCodeMemory

Spec == Init /\ [][Next]_vars

---------------------------------------------------------------------------
(* Calls served by concurrent threads: the page-table calls of different   *)
(* threads interleave, each page-table call being atomic.                  *)

ConcDst == {AslrRegionStart, AslrRegionStart + PageSize}
ConcSrc == {PageSize, NormalPage * PageSize}
ConcSizes == {PageSize}

ConcCalls(op, handles, perms) ==
    {NewCall(op, cur, h, dst, src, size, perm) :
        cur \in Callers, h \in handles, dst \in ConcDst, src \in ConcSrc,
        size \in ConcSizes, perm \in perms}

InFlight == Cardinality({t \in Threads : th[t].pc # "idle"})

\* Room for the references every call in flight may still take.
Headroom == \A b \in Blocks : ref[b] + 2 * (InFlight + 1) <= MaxRef

\* A thread enters a handler: validation and handle lookup read nothing
\* that another thread changes.
Begin(t, c) ==
    /\ th[t].pc = "idle"
    /\ Headroom
    /\ th' = [th EXCEPT ![t] = Step(St, c).c]

BeginSetProcessMemoryPermission(t) ==
    \E c \in {NewCall("SetProcessMemoryPermission", cur, "Peer", PageSize, 0, PageSize, "Read") :
                 cur \in Callers} : Begin(t, c) /\ UNCHANGED <<pt, ref, lk>>

BeginMapProcessMemory(t) ==
    \E c \in ConcCalls("MapProcessMemory", {"Peer"}, {"None"}) : Begin(t, c) /\ UNCHANGED <<pt, ref, lk>>

BeginUnmapProcessMemory(t) ==
    \E c \in ConcCalls("UnmapProcessMemory", {"Peer"}, {"None"}) : Begin(t, c) /\ UNCHANGED <<pt, ref, lk>>

BeginMapProcessCodeMemory(t) ==
    \E c \in ConcCalls("MapProcessCodeMemory", {"Pseudo"}, {"None"}) : Begin(t, c) /\ UNCHANGED <<pt, ref, lk>>

BeginUnmapProcessCodeMemory(t) ==
    \E c \in ConcCalls("UnmapProcessCodeMemory", {"Pseudo"}, {"None"}) : Begin(t, c) /\ UNCHANGED <<pt, ref, lk>>

\* The next page-table call of thread t.
Advance(t) ==
    /\ th[t].pc \notin {"idle", "done"}
    /\ LET r == Step(St, th[t]) IN
       /\ pt' = r.st.pt
       /\ ref' = r.st.ref
       /\ th' = [th EXCEPT ![t] = r.c]
    /\ UNCHANGED lk

\* The handler returns to the guest.
Finish(t) ==
    /\ th[t].pc = "done"
    /\ th' = [th EXCEPT ![t] = Idle]
    /\ UNCHANGED <<pt, ref, lk>>

NextConc ==
    \E t \in Threads :
        \/ BeginSetProcessMemoryPermission(t)
        \/ BeginMapProcessMemory(t)
        \/ BeginUnmapProcessMemory(t)
        \/ BeginMapProcessCodeMemory(t)
        \/ BeginUnmapProcessCodeMemory(t)
        \/ Advance(t)
        \/ Finish(t)

SpecConc == Init /\ [][NextConc]_vars

---------------------------------------------------------------------------
(* Cross-process calls with the page tables' locks as steps of their own:  *)
(* thread t runs in process t and names the other process as source.  A    *)
(* page-table call locks the tables it works on, one lock per step, does   *)
(* its work and releases them on return.                                   *)

\* The page tables the next page-table call of c works on: the source's for
\* Contains and MakeAndOpenPageGroup, the destination's for CanContain and
\* MapPageGroup, both for the page table's UnmapProcessMemory.
LockTables(c) ==
    IF c.op = "UnmapProcessMemory" /\ c.pc = "mutate" THEN {c.cur, c.proc}
    ELSE IF c.pc \in {"contains", "makegroup"} THEN {c.proc}
    ELSE {c.cur}

Held(t) == {p \in Procs : lk[p] = t}

\* The destination's (the caller's own) table locked first.
LockOrderCurrentFirst(c, need) ==
    IF c.cur \in need THEN c.cur ELSE CHOOSE p \in need : TRUE

\* The table locked next among those still needed: by increasing identity.
LockOrder(c, need) == CHOOSE p \in need : \A q \in need : p <= q

InCall(t) == th[t].pc \notin {"idle", "done"}

\* The tables thread t still has to lock for its next page-table call.
Needed(t) == IF InCall(t) THEN LockTables(th[t]) \ Held(t) ELSE {}

LockCalls(t, op) ==
    {NewCall(op, t, "Peer", AslrRegionStart, PageSize, PageSize, "None")}

LockBeginMapProcessMemory(t) ==
    \E c \in LockCalls(t, "MapProcessMemory") : Begin(t, c) /\ UNCHANGED <<pt, ref, lk>>

LockBeginUnmapProcessMemory(t) ==
    \E c \in LockCalls(t, "UnmapProcessMemory") : Begin(t, c) /\ UNCHANGED <<pt, ref, lk>>

Acquire(t) ==
    /\ Needed(t) # {}
    /\ LET p == LockOrder(th[t], Needed(t)) IN
       /\ lk[p] = 0
       /\ lk' = [lk EXCEPT ![p] = t]
    /\ UNCHANGED <<pt, ref, th>>

\* The page-table call itself, under its locks, and their release.
Perform(t) ==
    /\ InCall(t)
    /\ Needed(t) = {}
    /\ LET r == Step(St, th[t]) IN
       /\ pt' = r.st.pt
       /\ ref' = r.st.ref
       /\ th' = [th EXCEPT ![t] = r.c]
    /\ lk' = [p \in Procs |-> IF lk[p] = t THEN 0 ELSE lk[p]]

NextLock ==
    \E t \in Threads :
        \/ LockBeginMapProcessMemory(t)
        \/ LockBeginUnmapProcessMemory(t)
        \/ Acquire(t)
        \/ Perform(t)
        \/ Finish(t)

\* A thread that can take its next step takes it, and a thread waiting for
\* a lock gets it when the lock is released again and again.
SpecLock ==
    /\ Init
    /\ [][NextLock]_vars
    /\ \A t \in Threads : WF_vars(Perform(t)) /\ SF_vars(Acquire(t))

---------------------------------------------------------------------------
(* Properties.  A property of a handler is stated for every call of the    *)
(* input sets issued in the current state: Out(c) is the state and the     *)
(* context the call c returns with when it runs alone.                     *)

Out(c) == Run(St, c)

AddrArgs(c) == IF c.op = "SetProcessMemoryPermission" THEN {c.dst} ELSE {c.dst, c.src}

PageAligned(x) == x % PageSize = 0

AddrsAligned(c) == \A a \in AddrArgs(c) : PageAligned(a)

\* address + size does not fit the machine word
Wraps(address, size) == address + size >= Word

Overflows(c) == \E a \in AddrArgs(c) : Wraps(a, c.size)

\* aligned addresses, aligned non-zero size, no wrap
WellFormed(c) == AddrsAligned(c) /\ PageAligned(c.size) /\ c.size > 0 /\ ~Overflows(c)

\* Some call has already mapped shared memory into the caller's ASLR region.
SomeSharedMapping == \E p \in Procs, page \in ASPages : pt[p][page].state = "SharedCode"

\* Some call has already mapped code memory.
SomeCodeMapping == \E p \in Procs, page \in ASPages : pt[p][page].state = "AliasCode"

(* C1, as stated: a call whose address + size overflows returns            *)
(* InvalidCurrentMemory or InvalidAddress, with no handle lookup and no    *)
(* page-table access.                                                      *)
C1_OverflowAsStated ==
    \A c \in Calls :
        Overflows(c) =>
            LET r == Out(c) IN
            /\ r.c.res \in {"InvalidCurrentMemory", "InvalidAddress"}
            /\ ~r.c.looked /\ ~r.c.touched /\ r.st = St

(* C1, amended: a call whose address + size overflows returns              *)
(* InvalidAddress when an address argument is unaligned, InvalidSize when  *)
(* the addresses are aligned and the size is not, InvalidCurrentMemory     *)
(* otherwise; in each case before any handle lookup or page-table access.  *)
C1_Overflow ==
    \A c \in Calls :
        Overflows(c) =>
            LET r == Out(c) IN
            /\ r.c.res = IF ~AddrsAligned(c) THEN "InvalidAddress"
                         ELSE IF ~PageAligned(c.size) THEN "InvalidSize"
                         ELSE "InvalidCurrentMemory"
            /\ ~r.c.looked /\ ~r.c.touched /\ r.st = St

C1_Witness ==
    /\ SomeSharedMapping
    /\ \A op \in {"SetProcessMemoryPermission", "MapProcessMemory", "UnmapProcessMemory",
                  "MapProcessCodeMemory", "UnmapProcessCodeMemory"} :
          \E c \in Calls :
              /\ c.op = op /\ c.h = "Peer" /\ Overflows(c)
              /\ Out(c).c.res = "InvalidCurrentMemory" /\ ~Out(c).c.looked

(* C2: an unaligned address argument gives InvalidAddress; aligned         *)
(* addresses with an unaligned size give InvalidSize; for every handle,    *)
(* permission and state, and nothing is changed.                           *)
C2_Alignment ==
    \A c \in Calls :
        LET r == Out(c) IN
        /\ ~AddrsAligned(c) => r.c.res = "InvalidAddress" /\ r.st = St
        /\ AddrsAligned(c) /\ ~PageAligned(c.size) => r.c.res = "InvalidSize" /\ r.st = St

C2_Witness ==
    /\ SomeCodeMapping
    /\ \E c \in UnmapCodeCalls :
          /\ ~PageAligned(c.src) /\ PageAligned(c.dst) /\ c.h = "Pseudo"
          /\ Out(c).c.res = "InvalidAddress"
    /\ \E c \in MapCalls :
          /\ AddrsAligned(c) /\ ~PageAligned(c.size) /\ c.h = "Peer"
          /\ Out(c).c.res = "InvalidSize"

(* C3: SetProcessMemoryPermission with a well-formed range and a           *)
(* permission outside {None, Read, ReadWrite, ReadExecute} returns         *)
(* InvalidNewMemoryPermission for every handle, without resolving the      *)
(* handle and without changing any page.                                   *)
C3_InvalidPermission ==
    \A c \in SetPermCalls :
        WellFormed(c) /\ c.perm \notin {"None", "Read", "ReadWrite", "ReadExecute"} =>
            LET r == Out(c) IN
            /\ r.c.res = "InvalidNewMemoryPermission"
            /\ ~r.c.looked /\ ~r.c.touched /\ r.st = St

C3_Witness ==
    /\ \E page \in ASPages : pt[1][page].perm = "Read"
    /\ \E c \in SetPermCalls :
          /\ WellFormed(c) /\ c.perm = "Write" /\ c.h = "Peer" /\ c.dst = PageSize
          /\ Out(c).c.res = "InvalidNewMemoryPermission"

\* The destination range is not entirely inside the ASLR region.
DstOutsideAslr(c) == ~(AslrRegionStart <= c.dst /\ c.dst + c.size <= AslrRegionEnd)

SrcInsideAddressSpace(c) == AddressSpaceStart <= c.src /\ c.src + c.size <= AddressSpaceEnd

(* C4, as stated: MapProcessCodeMemory with aligned addresses and an       *)
(* aligned non-zero size whose destination is not entirely inside the ASLR *)
(* region fails with InvalidMemoryRegion and maps nothing.                 *)
C4_OutsideAslrAsStated ==
    \A c \in MapCodeCalls :
        AddrsAligned(c) /\ PageAligned(c.size) /\ c.size > 0 /\ DstOutsideAslr(c) =>
            Out(c).c.res = "InvalidMemoryRegion" /\ Out(c).st = St

(* C4, amended: such a call maps nothing and fails; with                   *)
(* InvalidMemoryRegion when neither range wraps, the handle resolves and   *)
(* the source range is inside the address space, with InvalidCurrentMemory *)
(* when a range wraps, with InvalidHandle when the ranges do not wrap and  *)
(* the handle does not resolve, and with InvalidCurrentMemory when the     *)
(* handle resolves and the source range is outside the address space.      *)
C4_OutsideAslr ==
    \A c \in MapCodeCalls :
        AddrsAligned(c) /\ PageAligned(c.size) /\ c.size > 0 /\ DstOutsideAslr(c) =>
            /\ Out(c).st = St
            /\ Out(c).c.res = IF Overflows(c) THEN "InvalidCurrentMemory"
                              ELSE IF c.h = "Bad" THEN "InvalidHandle"
                              ELSE IF ~SrcInsideAddressSpace(c) THEN "InvalidCurrentMemory"
                              ELSE "InvalidMemoryRegion"

C4_Witness ==
    /\ SomeCodeMapping
    /\ \E c \in MapCodeCalls :
          /\ WellFormed(c) /\ c.h = "Pseudo" /\ DstOutsideAslr(c)
          /\ c.src = NormalPage * PageSize
          /\ Out(c).c.res = "InvalidMemoryRegion"

(* C5: MapProcessMemory and UnmapProcessMemory with the pseudo handle and  *)
(* a well-formed range return InvalidHandle and change nothing; the other  *)
(* three handlers resolve the pseudo handle to the calling process and     *)
(* never return InvalidHandle for it.                                      *)
C5_PseudoHandle ==
    \A c \in Calls :
        c.h = "Pseudo" =>
            LET r == Out(c) IN
            IF c.op \in {"MapProcessMemory", "UnmapProcessMemory"}
            THEN WellFormed(c) => /\ r.c.res = "InvalidHandle"
                                  /\ r.st = St
                                  /\ r.c.opens = 0 /\ ~r.c.changed
            ELSE /\ r.c.res # "InvalidHandle"
                 /\ r.c.looked => r.c.proc = c.cur

C5_Witness ==
    /\ SomeSharedMapping
    /\ \E c \in MapCalls :
          WellFormed(c) /\ c.h = "Pseudo" /\ Out(c).c.res = "InvalidHandle"
    /\ \E c \in UnmapCalls :
          WellFormed(c) /\ c.h = "Pseudo" /\ Out(c).c.res = "InvalidHandle"
    /\ \E c \in SetPermCalls :
          c.h = "Pseudo" /\ Out(c).c.res = "Success" /\ Out(c).c.proc = c.cur
    /\ \E c \in MapCodeCalls :
          c.h = "Pseudo" /\ Out(c).c.res = "Success" /\ Out(c).c.proc = c.cur

\* The UnmapProcessMemory call with the arguments of the MapProcessMemory call c.
UnmapOf(c) == NewCall("UnmapProcessMemory", c.cur, c.h, c.dst, c.src, c.size, "None")

(* C6: round trip.  Whenever MapProcessMemory succeeds, UnmapProcessMemory *)
(* with the same arguments, issued next, succeeds and leaves the caller's  *)
(* address space as it was before the map.                                 *)
C6_RoundTrip ==
    \A c \in MapCalls :
        Out(c).c.res = "Success" =>
            LET u == Run(Out(c).st, UnmapOf(c)) IN
            /\ u.c.res = "Success"
            /\ u.st.pt[c.cur] = pt[c.cur]

\* The source range of call c backs its destination range.
SameBacking(s, c) ==
    /\ Contains(s, c.proc, c.src, c.size)
    /\ BlocksAt(s, c.cur, c.dst, c.size) = BlocksAt(s, c.proc, c.src, c.size)

MappedShared(s, c) ==
    \A page \in RangePages(c.dst, c.size) : s.pt[c.cur][page].state = "SharedCode"

C8_AllOrNothing ==
    \A t \in Threads :
        th[t].pc = "done" /\ th[t].res # "Success" =>
            ~th[t].changed /\ th[t].opens = th[t].closes

(* C9: when MapProcessMemory returns, every successful                     *)
(* MakeAndOpenPageGroup has been matched by one Close of the page group.   *)
C9_OpenClosed ==
    \A c \in MapCalls : Out(c).c.opens = Out(c).c.closes

(* C10: when MapProcessMemory succeeds, the source range was mapped,       *)
(* eligible and without attribute and the destination free and inside the  *)
(* shared-code region; afterwards the caller's range is contained, every   *)
(* page of it is SharedCode with permission ReadWrite, and it is backed by *)
(* the block sequence of the source range.                                 *)
C10_MapEffect ==
    \A c \in MapCalls :
        LET r == Out(c) IN
        r.c.res = "Success" =>
            /\ Contains(St, r.c.proc, c.src, c.size)
            /\ \A page \in RangePages(c.src, c.size) :
                  /\ "CanMapProcess" \in StateFlags(pt[r.c.proc][page].state)
                  /\ pt[r.c.proc][page].attr = "None"
            /\ IsInsideASLRRegion(c.dst, c.size) /\ IsFree(St, c.cur, c.dst, c.size)
            /\ Contains(r.st, c.cur, c.dst, c.size)
            /\ \A page \in RangePages(c.dst, c.size) :
                  /\ r.st.pt[c.cur][page].state = "SharedCode"
                  /\ r.st.pt[c.cur][page].perm = "ReadWrite"
            /\ BlocksAt(r.st, c.cur, c.dst, c.size) = BlocksAt(St, r.c.proc, c.src, c.size)
            /\ BlocksAt(r.st, r.c.proc, c.src, c.size) = BlocksAt(St, r.c.proc, c.src, c.size)

C10_Witness ==
    /\ pt[2][FirstPage(AslrRegionStart)].state = "SharedCode"
    /\ pt[2][FirstPage(AslrRegionStart)].blk = BlockOf(1, 2)
    /\ pt[2][FirstPage(AslrRegionStart) + 1].blk = BlockOf(1, 1)
    /\ pt[1][1].perm = "Read"

\* Block b backs a page of some address space.
Mapped(s, b) == \E p \in Procs, page \in ASPages : s.pt[p][page].blk = b

(* C11: no mapped block has reference count zero, and whenever             *)
(* MapProcessMemory succeeds, after the UnmapProcessMemory with the same   *)
(* arguments that follows it every block still mapped has a count of at    *)
(* least 1 and every count equals its value before the map.                *)
C11_RefCount ==
    /\ \A b \in Blocks : Mapped(St, b) => ref[b] >= 1
    /\ \A c \in MapCalls :
          Out(c).c.res = "Success" =>
              LET u == Run(Out(c).st, UnmapOf(c)) IN
              \A b \in Blocks :
                  /\ Mapped(u.st, b) => u.st.ref[b] >= 1
                  /\ u.st.ref[b] = ref[b]

\* The UnmapProcessCodeMemory call with the arguments of the
\* MapProcessCodeMemory call c.
UnmapCodeOf(c) == NewCall("UnmapProcessCodeMemory", c.cur, c.h, c.dst, c.src, c.size, "None")

(* C12: code-mapping round trip.  Whenever MapProcessCodeMemory succeeds,  *)
(* every page of the destination range has permission ReadExecute, and the *)
(* UnmapProcessCodeMemory with the same arguments that follows succeeds    *)
(* and leaves every address space and every reference count as before the  *)
(* map: the destination free, the source with its state, permission and    *)
(* attribute.                                                              *)
C12_CodeRoundTrip ==
    \A c \in MapCodeCalls :
        LET m == Out(c) IN
        m.c.res = "Success" =>
            /\ \A page \in RangePages(c.dst, c.size) :
                  m.st.pt[m.c.proc][page].perm = "ReadExecute"
            /\ LET u == Run(m.st, UnmapCodeOf(c)) IN
               /\ u.c.res = "Success"
               /\ IsFree(u.st, m.c.proc, c.dst, c.size)
               /\ u.st = St

C12_Witness ==
    /\ SomeSharedMapping
    /\ pt[1][FirstPage(AslrRegionStart)].state = "AliasCode"
    /\ \E c \in MapCodeCalls :
          /\ c.h = "Pseudo" /\ c.dst = AslrRegionStart + PageSize
          /\ Out(c).c.res = "Success"
          /\ Run(Out(c).st, UnmapCodeOf(c)).c.res = "Success"

\* Thread t takes the MapPageGroup step of a MapProcessMemory call.
MapGroupStep(t) ==
    /\ th[t].op = "MapProcessMemory" /\ th[t].pc = "mutate"
    /\ th'[t].pc = "done"

Waits(t, p) ==
    /\ Needed(t) # {}
    /\ p = LockOrder(th[t], Needed(t))
    /\ lk[p] \notin {0, t}

HoldAndWait ==
    \E t, u \in Threads : \E p, q \in Procs :
        /\ t # u /\ p # q
        /\ lk[p] = t /\ Waits(t, q)
        /\ lk[q] = u /\ Waits(u, p)

PairCalls ==
    {NewCall("SetProcessMemoryPermission", cur, "Peer", PageSize, 0, PageSize, "Read") :
        cur \in Callers}
    \cup ConcCalls("MapProcessMemory", {"Peer"}, {"None"})
    \cup ConcCalls("UnmapProcessMemory", {"Peer"}, {"None"})
    \cup ConcCalls("MapProcessCodeMemory", {"Pseudo"}, {"None"})
    \cup ConcCalls("UnmapProcessCodeMemory", {"Pseudo"}, {"None"})

\* The results and the final state of every interleaving of the
\* page-table calls of c1 and c2 from state s.
RECURSIVE Interleavings(_, _, _)
Interleavings(s, c1, c2) ==
    IF c1.pc = "done" /\ c2.pc = "done"
    THEN {[st |-> s, r1 |-> c1.res, r2 |-> c2.res]}
    ELSE (IF c1.pc # "done"
          THEN LET r == Step(s, c1) IN Interleavings(r.st, r.c, c2)
          ELSE {})
         \cup
         (IF c2.pc # "done"
          THEN LET r == Step(s, c2) IN Interleavings(r.st, c1, r.c)
          ELSE {})

\* The results and the final state of c1 and c2 run one after the other,
\* in either order.
Serial(s, c1, c2) ==
    LET a1 == Run(s, c1)
        a2 == Run(a1.st, c2)
        b2 == Run(s, c2)
        b1 == Run(b2.st, c1)
    IN {[st |-> a2.st, r1 |-> a1.c.res, r2 |-> a2.c.res],
        [st |-> b1.st, r1 |-> b1.c.res, r2 |-> b2.c.res]}

(* C15: two operations started by two threads when no other call is in    *)
(* progress return, under every interleaving of their page-table calls,    *)
(* the results and leave the address spaces and reference counts that      *)
(* running them one after the other in some order gives.                   *)
C15_Atomic ==
    (\A t \in Threads : th[t].pc = "idle") =>
        \A c1, c2 \in PairCalls : Interleavings(St, c1, c2) \subseteq Serial(St, c1, c2)

\* The process a handle names for the handlers that accept the pseudo
\* handle; 0 if it names none.
NamedProcess(c) ==
    IF c.h = "Pseudo" THEN c.cur
    ELSE IF c.h = "Peer" THEN CHOOSE p \in Procs : p # c.cur
    ELSE 0

\* Page `page` of process p does not admit a permission change.
Ineligible(s, p, page) ==
    "Code" \notin StateFlags(s.pt[p][page].state) \/ s.pt[p][page].attr # "None"

(* C16: SetProcessMemoryPermission with a well-formed range, a valid       *)
(* permission and a handle that names a process: if the range is not       *)
(* contained in that process's address space or a page of it is            *)
(* ineligible, it returns InvalidCurrentMemory and changes nothing;        *)
(* otherwise it succeeds, every page of the range has the new permission,  *)
(* and the pages outside the range, the state, attribute and backing of    *)
(* all pages, the other address spaces and the reference counts are        *)
(* unchanged.                                                              *)
C16_SetPermission ==
    \A c \in SetPermCalls :
        WellFormed(c) /\ IsValidProcessMemoryPermission(c.perm) /\ NamedProcess(c) # 0 =>
            LET r == Out(c)
                p == NamedProcess(c) IN
            IF \/ ~Contains(St, p, c.dst, c.size)
               \/ \E page \in RangePages(c.dst, c.size) : Ineligible(St, p, page)
            THEN r.c.res = "InvalidCurrentMemory" /\ r.st = St
            ELSE /\ r.c.res = "Success"
                 /\ r.st.ref = ref
                 /\ \A q \in Procs, page \in ASPages :
                       IF q = p /\ page \in RangePages(c.dst, c.size)
                       THEN r.st.pt[q][page] = [pt[q][page] EXCEPT !.perm = c.perm]
                       ELSE r.st.pt[q][page] = pt[q][page]

C16_Witness ==
    /\ pt[1][1].perm = "Read" /\ pt[1][2].perm = "ReadExecute"
    /\ pt[2][FirstPage(AslrRegionStart)].state = "SharedCode"
    /\ \E c \in SetPermCalls :
          /\ c.h = "Peer" /\ c.dst = PageSize /\ c.size = 2 * PageSize /\ c.perm = "Read"
          /\ Out(c).c.res = "Success"
          /\ Out(c).st.pt[1][2].perm = "Read"
    /\ \E c \in SetPermCalls :
          /\ c.h = "Pseudo" /\ c.dst = AslrRegionStart /\ c.size = PageSize /\ c.perm = "Read"
          /\ Out(c).c.res = "InvalidCurrentMemory"
    /\ \E c \in SetPermCalls :
          /\ c.h = "Peer" /\ c.dst = AslrRegionStart /\ c.size = PageSize /\ c.perm = "Read"
          /\ Out(c).c.res = "InvalidCurrentMemory"

\* The process the handle of call c resolves to; 0 if it resolves to none.
ResolvedProcess(c) ==
    IF c.op \in {"MapProcessMemory", "UnmapProcessMemory"} /\ c.h = "Pseudo" THEN 0
    ELSE NamedProcess(c)

\* The error of the first check of call c that fails in state s, the checks
\* taken in the order: address alignment, size, overflow, permission value,
\* handle, source containment, destination region; "None" if none fails.
FirstFailure(s, c) ==
    IF ~AddrsAligned(c) THEN "InvalidAddress"
    ELSE IF ~PageAligned(c.size) \/ c.size = 0 THEN "InvalidSize"
    ELSE IF Overflows(c) THEN "InvalidCurrentMemory"
    ELSE IF /\ c.op = "SetProcessMemoryPermission"
            /\ c.perm \notin {"None", "Read", "ReadWrite", "ReadExecute"}
         THEN "InvalidNewMemoryPermission"
    ELSE IF ResolvedProcess(c) = 0 THEN "InvalidHandle"
    ELSE IF c.op = "SetProcessMemoryPermission"
         THEN IF ~Contains(s, ResolvedProcess(c), c.dst, c.size)
              THEN "InvalidCurrentMemory" ELSE "None"
    ELSE IF c.op \in {"MapProcessMemory", "UnmapProcessMemory"}
         THEN IF ~Contains(s, ResolvedProcess(c), c.src, c.size)
              THEN "InvalidCurrentMemory"
              ELSE IF ~CanContain(s, c.cur, c.dst, c.size, "SharedCode")
              THEN "InvalidMemoryRegion" ELSE "None"
    ELSE IF ~SrcInsideAddressSpace(c) THEN "InvalidCurrentMemory"
    ELSE IF DstOutsideAslr(c) THEN "InvalidMemoryRegion"
    ELSE "None"

\* Some shape check of c fails: alignment, zero size or overflow.
Malformed(c) == ~WellFormed(c)

(* C17: every call returns the error of its first failing check, in the    *)
(* order address alignment, size, overflow, permission value, handle,      *)
(* source containment, destination region, and changes nothing; the handle *)
(* table is not consulted when a shape check or the permission check       *)
(* fails, and no page table is consulted when the handle does not resolve. *)
C17_CheckOrder ==
    \A c \in Calls :
        LET f == FirstFailure(St, c) IN
        f # "None" =>
            LET r == Out(c) IN
            /\ r.c.res = f
            /\ r.st = St
            /\ Malformed(c) => ~r.c.looked /\ ~r.c.touched
            /\ f = "InvalidNewMemoryPermission" => ~r.c.looked /\ ~r.c.touched
            /\ f = "InvalidHandle" => r.c.looked /\ ~r.c.touched

C17_Witness ==
    /\ SomeSharedMapping
    /\ \E c \in MapCalls :
          /\ c.h = "Peer" /\ WellFormed(c)
          /\ ~Contains(St, 1, c.src, c.size)
          /\ ~CanContain(St, c.cur, c.dst, c.size, "SharedCode")
          /\ Out(c).c.res = "InvalidCurrentMemory"
    /\ \A op \in {"SetProcessMemoryPermission", "MapProcessMemory", "UnmapProcessMemory",
                  "MapProcessCodeMemory", "UnmapProcessCodeMemory"} :
          \E c \in Calls :
              /\ c.op = op /\ c.size = 0 /\ AddrsAligned(c) /\ c.h = "Bad"
              /\ Out(c).c.res = "InvalidSize" /\ ~Out(c).c.looked
    /\ \E c \in UnmapCodeCalls :
          c.h = "Bad" /\ WellFormed(c) /\ Out(c).c.res = "InvalidHandle" /\ ~Out(c).c.touched

\* The source range of call c overlaps a range of process p that is mapped
\* out as a code source.
SrcReserved(s, p, c) ==
    \E page \in RangePages(c.src, c.size) \cap ASPages : s.pt[p][page].attr = "Locked"

\* The destination range of call c overlaps a code alias of process p.
DstAliased(s, p, c) ==
    \E page \in RangePages(c.dst, c.size) \cap ASPages : s.pt[p][page].state = "AliasCode"

(* C18, as stated: while a code mapping exists, a MapProcessCodeMemory     *)
(* whose source range overlaps its mapped-out source, or whose destination *)
(* overlaps its alias, fails with InvalidCurrentMemory and changes         *)
(* nothing (stated for well-formed calls whose handle names the process).  *)
C18_ReservedAsStated ==
    \A c \in MapCodeCalls :
        /\ WellFormed(c) /\ NamedProcess(c) # 0
        /\ SrcReserved(St, NamedProcess(c), c) \/ DstAliased(St, NamedProcess(c), c)
        => Out(c).c.res = "InvalidCurrentMemory" /\ Out(c).st = St

(* C18, amended: such a call fails and changes nothing; it fails with      *)
(* InvalidMemoryRegion when its source range is inside the address space   *)
(* and its destination range is not entirely inside the ASLR region, and   *)
(* with InvalidCurrentMemory otherwise.                                    *)
C18_Reserved ==
    \A c \in MapCodeCalls :
        /\ WellFormed(c) /\ NamedProcess(c) # 0
        /\ SrcReserved(St, NamedProcess(c), c) \/ DstAliased(St, NamedProcess(c), c)
        => /\ Out(c).st = St
           /\ Out(c).c.res = IF SrcInsideAddressSpace(c) /\ DstOutsideAslr(c)
                              THEN "InvalidMemoryRegion"
                              ELSE "InvalidCurrentMemory"

C18_Witness ==
    /\ pt[2][FirstPage(AslrRegionStart)].state = "AliasCode"
    /\ pt[2][NormalPage].attr = "Locked"
    /\ \E c \in MapCodeCalls :
          /\ c.h = "Pseudo" /\ c.size = PageSize
          /\ c.src = NormalPage * PageSize /\ c.dst = AslrRegionStart + PageSize
          /\ IsFree(St, 2, c.dst, c.size)
          /\ Out(c).c.res = "InvalidCurrentMemory"
    /\ \E c \in MapCodeCalls :
          /\ c.h = "Pseudo" /\ c.size = PageSize
          /\ c.src = PageSize /\ c.dst = AslrRegionStart
          /\ Out(c).c.res = "InvalidCurrentMemory"

\* The context of call c after its pre-mutation checks in state s: returned
\* ("done") with the error of the check that failed, or about to create
\* the page group or to call the page table's mutation.
RECURSIVE Checks(_, _)
Checks(s, c) ==
    IF c.pc \in {"makegroup", "mutate", "done"} THEN c
    ELSE Checks(s, Step(s, c).c)

\* The unmap call with the arguments of the map call c.
Counterpart(c) ==
    IF c.op = "MapProcessMemory" THEN UnmapOf(c) ELSE UnmapCodeOf(c)

(* C19: in every state and for every argument tuple, UnmapProcessMemory    *)
(* fails in its pre-mutation checks exactly when MapProcessMemory fails    *)
(* before creating a page group, and with the same error; likewise         *)
(* UnmapProcessCodeMemory and MapProcessCodeMemory.                        *)
C19_SameChecks ==
    \A c \in MapCalls \cup MapCodeCalls :
        LET m == Checks(St, c)
            u == Checks(St, Counterpart(c)) IN
        /\ (m.pc = "done") <=> (u.pc = "done")
        /\ m.pc = "done" => u.res = m.res

C19_Witness ==
    /\ SomeSharedMapping /\ SomeCodeMapping
    /\ \E c \in MapCalls :
          /\ c.h = "Peer" /\ WellFormed(c) /\ c.dst = AslrRegionStart
          /\ Out(c).c.res = "InvalidMemoryRegion"
          /\ Out(UnmapOf(c)).c.res = "InvalidMemoryRegion"
    /\ \E c \in MapCalls :
          /\ c.h = "Pseudo" /\ WellFormed(c)
          /\ Out(c).c.res = "InvalidHandle" /\ Out(UnmapOf(c)).c.res = "InvalidHandle"
    /\ \E c \in MapCodeCalls :
          /\ c.h = "Pseudo" /\ ~PageAligned(c.src) /\ PageAligned(c.dst)
          /\ Out(c).c.res = "InvalidAddress" /\ Out(UnmapCodeOf(c)).c.res = "InvalidAddress"
    /\ \E c \in MapCodeCalls :
          /\ c.h = "Pseudo" /\ WellFormed(c) /\ DstOutsideAslr(c)
          /\ Out(c).c.res = "InvalidMemoryRegion"
          /\ Out(UnmapCodeOf(c)).c.res = "InvalidMemoryRegion"

=============================================================================
